---- MODULE Spec2Model ----
(***************************************************************************)
(* Live-preview pipeline of the Viewfinder component                       *)
(* (src/src/components/TabbedEditor.tsx) and the bridge operations it      *)
(* registers in the global store (src/unnamed/part_004).                   *)
(*                                                                         *)
(* The Viewfinder is a React component: its useState fields are local to   *)
(* one mounted instance, an await is a suspension point, and every         *)
(* continuation runs to the next await without interruption.  The Tauri    *)
(* backend commands (export_project_web, clear_export_cache) are not part  *)
(* of the sources; their effect on the build cache is modelled from the    *)
(* design document (sections 4.2, 4.3).                                    *)
(***************************************************************************)
EXTENDS Integers, FiniteSets, Sequences, Bags, TLC

\* ---------------------------------------------------------------- bounds
MaxRuns == 2        \* runPreview invocations that may be suspended at once
MaxFp == 2          \* distinct states of the project inputs (fingerprints)
MaxCalls == 2       \* bridge calls issued in one behaviour
MaxClock == 1       \* values Date.now() advances through
MaxProjects == 2    \* project directories that can be opened
MaxMappings == 2    \* entries of the inputMappings table
MaxSends == 2       \* sendMessage calls in one behaviour
MaxWrites == 2      \* actions the agent writes to agent_input.json
MaxFrames == 3      \* frames the AI controller processes

\* ------------------------------------------------------------- constants
NoId == 0 - 1                     \* a request that carries no requestId field
autoRebuild == TRUE               \* useState(true); its setter is never called

Calls == 1..MaxCalls
Projects == 1..MaxProjects
Ops == {"captureFrame", "testControls", "captureNode"}
NoAction == [id |-> 0, function |-> "", args |-> <<>>]   \* a file without an action

VARIABLES
    \* Viewfinder instance (React local state)
    mounted,          \* TabbedEditor shows the Game tab, Viewfinder is mounted
    previewUrl,       \* "null" or "http", the address of the preview server
    isRunning,
    isExporting,
    exportError,      \* FALSE = null
    pendingChanges,
    \* suspended async functions of the Viewfinder
    runs,             \* bag of the runPreview invocations that are suspended
    refresh,          \* the forceRefresh invocation
    \* global store
    storePreviewUrl,
    bridgeFns,        \* captureFrame / testControls / captureNode of the store
    buildStatus,      \* "idle", "building", "success" or "error"
    statusTimers,     \* the auto-clear timers of setBuildStatus that are armed
    allTimers,        \* the timers of earlier calls are kept beside the latest
    \* backend and project directory
    fingerprint,      \* identity of the project inputs on disk
    cache,            \* fingerprint whose artifact the export cache holds, 0 = empty
    changeBatch,      \* the watcher holds a change batch it has not delivered
    server,           \* "none" or "bound": the preview server of the backend
    watcher,          \* the last watcher command issued: "none", "start", "stop"
    lingering,        \* listeners of project-files-changed that were replaced
                      \* and are not removed yet
    listenLag,        \* the backend may answer listen after the effect is replaced
    \* bridge channel
    calls,
    now,              \* Date.now()
    \* history
    deferred,         \* a change notification arrived during a build, no build started since
    prev,             \* the latest preview request
    stopped,          \* stopPreview has run and no preview was requested since
    \* project and chat of the store
    projectPath,      \* the project directory that is open
    inputMappings,    \* the control actions the project declares
    currentInput,     \* the text of the chat input
    dispatched,       \* the action lists sendMessage has passed to testControls
    thread,           \* the assistant messages of the active thread
    isLoading,
    \* AI controller of the running game (ai_controller.gd)
    enabled,          \* AGENT_ENABLED was "true" when _ready ran
    player,           \* a player node has been found
    ctl,              \* "created", "frame" (between frames) or "clear" (inside _read_actions)
    inputFile,        \* the content of agent_input.json
    action_queue,
    frame_count,
    analog_move,      \* left stick, in tenths
    pressed,          \* the input actions that are pressed (Input singleton)
    byAnalog,         \* those of them _apply_analog_input pressed, not released since
    written,          \* how many actions the agent has written
    received,         \* history: the actions _read_actions has queued
    handled           \* history: the actions _process has taken off the queue

localVars == <<mounted, previewUrl, isRunning, isExporting, exportError, pendingChanges>>
asyncVars == <<runs, refresh>>
storeVars == <<storePreviewUrl, bridgeFns>>
backendVars == <<fingerprint, cache, changeBatch>>
bridgeVars == <<calls, now>>
historyVars == <<deferred, prev>>
statusVars == <<buildStatus, statusTimers, allTimers>>
serviceVars == <<server, watcher>>
projectVars == <<projectPath, inputMappings>>
chatVars == <<currentInput, dispatched, thread, isLoading>>
listenerVars == <<lingering, listenLag>>
controllerVars == <<enabled, player, ctl, inputFile, action_queue, frame_count,
                    analog_move, pressed, byAnalog, written, received, handled>>
vars == <<localVars, asyncVars, storeVars, backendVars, bridgeVars, historyVars,
          statusVars, serviceVars, stopped, projectVars, chatVars, listenerVars, controllerVars>>

NoCall == [op |-> "none", requestId |-> NoId, listener |-> "none",
           timer |-> "none", outcome |-> "pending"]
\* kind "other": no request yet, a forced request, or a request that
\* overlapped another export or a cache clear
OtherReq == [kind |-> "other", fp |-> 0]

\* the state after construction, apart from the latency of the backend
Constructed ==
    /\ mounted = TRUE
    /\ previewUrl = "null"
    /\ isRunning = FALSE
    /\ isExporting = FALSE
    /\ exportError = FALSE
    /\ pendingChanges = FALSE
    /\ runs = EmptyBag
    /\ refresh = [pc |-> "idle", stale |-> FALSE]
    /\ storePreviewUrl = "null"
    /\ bridgeFns = "null"
    /\ fingerprint = 1
    /\ cache = 0
    /\ changeBatch = FALSE
    /\ calls = [c \in Calls |-> NoCall]
    /\ now = 0
    /\ deferred = FALSE
    /\ prev = OtherReq
    /\ buildStatus = "idle"
    /\ statusTimers = {}
    /\ server = "none"
    /\ watcher = "none"
    /\ stopped = FALSE
    /\ projectPath = 1
    /\ inputMappings = <<>>
    /\ currentInput = ""
    /\ dispatched = {}
    /\ thread = <<>>
    /\ isLoading = FALSE
    /\ lingering = {}
    /\ enabled = FALSE
    /\ player = FALSE
    /\ ctl = "created"
    /\ inputFile = NoAction
    /\ action_queue = <<>>
    /\ frame_count = 0
    /\ analog_move = <<0, 0>>
    /\ pressed = {}
    /\ byAnalog = {}
    /\ written = 0
    /\ received = <<>>
    /\ handled = <<>>

\* the backend answers every listen request before the effect is replaced,
\* and of the auto-clear timers only the one of the latest call is kept
Init == Constructed /\ listenLag = FALSE /\ allTimers = FALSE

\* the answer to a listen request may arrive after the effect was replaced
InitWatcher == Constructed /\ listenLag = TRUE /\ allTimers = FALSE

\* every auto-clear timer is kept until it expires
InitStatus == Constructed /\ listenLag = FALSE /\ allTimers = TRUE

\* ------------------------------------------------- build side: helpers
RECURSIVE BagSum(_, _)
BagSum(b, S) ==
    IF S = {} THEN 0
    ELSE LET x == CHOOSE y \in S : TRUE IN b[x] + BagSum(b, S \ {x})

\* the bag of F(r) for the elements r of bag b
MapBag(b, F(_)) ==
    [x \in {F(r) : r \in DOMAIN b} |-> BagSum(b, {r \in DOMAIN b : F(r) = x})]

\* the sub-bag of the elements of b that satisfy P
FilterBag(b, P(_)) == [x \in {r \in DOMAIN b : P(r)} |-> b[x]]

IsBuild(r) == r.pc = "export" /\ ~r.hit
\* invocations of the external build tool that have not returned
BuildsInFlight == BagCardinality(FilterBag(runs, IsBuild))

\* the file-watcher effect is active: the Viewfinder has a previewUrl
WatcherOn == mounted /\ previewUrl # "null"

\* mutant: every export is forced
forceArgAlways(forceRebuild) == TRUE

\* the force argument runPreview hands to export_project_web
forceArg(forceRebuild) == forceRebuild

\* mutant: forceRefresh asks for an unforced preview
forceRefreshArgUnforced == FALSE

\* the argument forceRefresh hands to runPreview
forceRefreshArg == TRUE

\* export_project_web, step 3 of requestPreview: a hit needs force = false
\* and an artifact stored under the current fingerprint
CacheLookup(force) == ~force /\ cache = fingerprint

\* an unforced request that overlaps no other export and no cache clear is
\* followed up to its completion
Followed(forceRebuild) ==
    ~forceRebuild /\ runs = EmptyBag /\ refresh.pc # "invoked"

Unlast(r) == [r EXCEPT !.last = FALSE]
Stale(r) == [r EXCEPT !.stale = TRUE]

\* an auto-clear timer holds the status of the call that armed it; late
\* tells that setBuildStatus was called again after that call.  Timers
\* that agree in both are kept as one
NewTimer(status) == [status |-> status, late |-> FALSE]
Late(timers) == {[t EXCEPT !.late = TRUE] : t \in timers}

\* setBuildStatus of the store: a call with success or error arms a timer.
\* The timer of an earlier call resets the status only while it has the
\* value of that timer again, and then a timer of the latest call with
\* that value is armed as well: the values buildStatus takes are the same
\* whether the earlier timers are kept (allTimers) or not
setBuildStatus(status) ==
    /\ buildStatus' = status
    /\ statusTimers' =
          (IF allTimers THEN Late(statusTimers) ELSE {}) \cup
             (IF status \in {"success", "error"} THEN {NewTimer(status)} ELSE {})
    /\ UNCHANGED allTimers

\* the file-watcher effect after a render: its body issues
\* start_file_watcher when the instance has a previewUrl, its cleanup
\* issues stop_file_watcher when the effect is replaced or the instance is
\* unmounted; active tells whether the new render has a previewUrl
fileWatcherEffect(active) ==
    IF active THEN "start" ELSE IF WatcherOn THEN "stop" ELSE watcher

\* the listener of project-files-changed the file-watcher effect has
\* registered, with the values its closure holds
currentListener == [exporting |-> isExporting, stale |-> FALSE, path |-> projectPath]
Listeners == IF WatcherOn THEN {currentListener} ELSE {}
StaleSet(ls) == {[l EXCEPT !.stale = TRUE] : l \in ls}

\* a step changes a dependency of the file-watcher effect while the effect
\* has a listener: React runs the cleanup and then the body
effectReplaced ==
    /\ WatcherOn
    /\ \/ previewUrl' # previewUrl
       \/ projectPath' # projectPath
       \/ isExporting' # isExporting

\* the cleanup removes the listener by unlisten.then(fn => fn()): at once
\* when the promise of listen has resolved, and when the promise is
\* pending only after it has resolved, so the listener stays registered
\* beside the one the body registers
reRegister ==
    /\ lingering' \in IF effectReplaced /\ listenLag
                      THEN {lingering, lingering \cup {currentListener}}
                      ELSE {lingering}
    /\ UNCHANGED listenLag

\* start_preview_server of the backend binds a server for the artifact; a
\* server bound before is stopped by it
StartPreviewServer == "bound"

\* runPreview up to its first await (invoke export_project_web)
runPreview(forceRebuild, stale) ==
    /\ BagCardinality(runs) < MaxRuns
    /\ LET hit == CacheLookup(forceArg(forceRebuild))
           run == [pc |-> "export", stale |-> stale, path |-> projectPath,
                   fp |-> fingerprint, hit |-> hit, last |-> Followed(forceRebuild)]
       IN  /\ runs' = MapBag(runs, Unlast) (+) SetToBag({run})
           /\ deferred' = IF hit THEN deferred ELSE FALSE
    /\ prev' = IF Followed(forceRebuild)
               THEN [kind |-> "inflight", fp |-> fingerprint] ELSE OtherReq
    /\ setBuildStatus("building")
    /\ stopped' = FALSE
    /\ IF stale
       THEN UNCHANGED <<isExporting, exportError, pendingChanges>>
       ELSE /\ isExporting' = TRUE
            /\ exportError' = FALSE
            /\ pendingChanges' = FALSE

\* runPreview is left: the request that is followed has completed
Finished(r, how) ==
    prev' = IF r.last /\ prev.kind = "inflight" THEN [prev EXCEPT !.kind = how] ELSE prev

\* mutant: the catch block reports nothing
runPreviewCatchSilent(r) ==
    /\ runs' = runs (-) SetToBag({r})
    /\ UNCHANGED statusVars
    /\ IF r.stale
       THEN UNCHANGED <<isExporting, exportError>>
       ELSE /\ isExporting' = FALSE
            /\ UNCHANGED exportError

\* mutant: the catch block returns before setIsExporting(false)
runPreviewCatchReturns(r) ==
    /\ runs' = runs (-) SetToBag({r})
    /\ setBuildStatus("error")
    /\ IF r.stale
       THEN UNCHANGED <<isExporting, exportError>>
       ELSE /\ exportError' = TRUE
            /\ UNCHANGED isExporting

\* the catch block and the trailing setIsExporting(false) of runPreview
runPreviewCatch(r) ==
    /\ runs' = runs (-) SetToBag({r})
    /\ setBuildStatus("error")
    /\ IF r.stale
       THEN UNCHANGED <<isExporting, exportError>>
       ELSE /\ exportError' = TRUE
            /\ isExporting' = FALSE

\* ------------------------------------------------- build side: actions
\* toolbar button "Initialize"
Initialize ==
    /\ mounted /\ ~(isRunning \/ previewUrl # "null") /\ ~isExporting
    /\ runPreview(FALSE, FALSE)
    /\ UNCHANGED <<mounted, previewUrl, isRunning, refresh, storeVars, backendVars,
                   bridgeVars, serviceVars, projectVars, chatVars, controllerVars>>
    /\ reRegister

\* the large play button of the empty viewport
PlayButton ==
    /\ mounted /\ previewUrl = "null" /\ ~isExporting /\ ~exportError
    /\ runPreview(FALSE, FALSE)
    /\ UNCHANGED <<mounted, previewUrl, isRunning, refresh, storeVars, backendVars,
                   bridgeVars, serviceVars, projectVars, chatVars, controllerVars>>
    /\ reRegister

\* button "Re-Attempt" of the error panel
ReAttempt ==
    /\ mounted /\ previewUrl = "null" /\ ~isExporting /\ exportError
    /\ runPreview(FALSE, FALSE)
    /\ UNCHANGED <<mounted, previewUrl, isRunning, refresh, storeVars, backendVars,
                   bridgeVars, serviceVars, projectVars, chatVars, controllerVars>>
    /\ reRegister

\* the rebuild button of the toolbar, always enabled
RebuildButton ==
    /\ mounted
    /\ runPreview(TRUE, FALSE)
    /\ UNCHANGED <<mounted, previewUrl, isRunning, refresh, storeVars, backendVars,
                   bridgeVars, serviceVars, projectVars, chatVars, controllerVars>>
    /\ reRegister

\* mutant: runPreview goes on to start_preview_server after a failed export
ExportReturnIgnoresFailure(r, ok) ==
    /\ r \in DOMAIN runs
    /\ r.pc = "export"
    /\ r.hit => ok
    /\ cache' = IF r.hit \/ r.path # projectPath \/ ~ok THEN cache ELSE r.fp
    /\ runs' = (runs (-) SetToBag({r})) (+) SetToBag({[r EXCEPT !.pc = "server"]})
    /\ UNCHANGED <<isExporting, exportError, prev, statusVars>>
    /\ UNCHANGED <<mounted, previewUrl, isRunning, pendingChanges, refresh, storeVars,
                   fingerprint, changeBatch, bridgeVars, deferred, serviceVars, stopped,
                   projectVars, chatVars, controllerVars>>
    /\ reRegister

\* mutant: the catch block of a failed export takes the preview down
ExportReturnStopsPreview(r, ok) ==
    /\ r \in DOMAIN runs
    /\ r.pc = "export"
    /\ r.hit => ok
    /\ IF ok
       THEN /\ cache' = IF r.hit \/ r.path # projectPath THEN cache ELSE r.fp
            /\ runs' = (runs (-) SetToBag({r})) (+) SetToBag({[r EXCEPT !.pc = "server"]})
            /\ UNCHANGED <<isExporting, exportError, prev, statusVars, previewUrl, storeVars>>
       ELSE /\ runPreviewCatch(r)
            /\ Finished(r, "failed")
            /\ previewUrl' = "null" /\ storePreviewUrl' = "null" /\ bridgeFns' = "null"
            /\ UNCHANGED cache
    /\ UNCHANGED <<mounted, isRunning, pendingChanges, refresh,
                   fingerprint, changeBatch, bridgeVars, deferred, serviceVars, stopped,
                   projectVars, chatVars, controllerVars>>
    /\ reRegister

\* export_project_web returns.  A build that succeeded has stored its
\* artifact, for the project it was invoked with, under the fingerprint it
\* started from (cache is the entry of the open project); runPreview goes on to
\* invoke start_preview_server, or to its catch block when the export failed
ExportReturn(r, ok) ==
    /\ r \in DOMAIN runs
    /\ r.pc = "export"
    /\ r.hit => ok
    /\ IF ok
       THEN /\ cache' = IF r.hit \/ r.path # projectPath THEN cache ELSE r.fp
            /\ runs' = (runs (-) SetToBag({r})) (+) SetToBag({[r EXCEPT !.pc = "server"]})
            /\ UNCHANGED <<isExporting, exportError, prev, statusVars>>
       ELSE /\ runPreviewCatch(r)
            /\ Finished(r, "failed")
            /\ UNCHANGED cache
    /\ UNCHANGED <<mounted, previewUrl, isRunning, pendingChanges, refresh, storeVars,
                   fingerprint, changeBatch, bridgeVars, deferred, serviceVars, stopped,
                   projectVars, chatVars, controllerVars>>
    /\ reRegister

\* start_preview_server returns; on success the preview is published: the
\* url and the three bridge functions are set, then isExporting is reset
ServerReturn(r, ok) ==
    /\ r \in DOMAIN runs
    /\ r.pc = "server"
    /\ Finished(r, "ok")
    /\ IF ok
       THEN /\ server' = StartPreviewServer
            /\ setBuildStatus("success")
            /\ storePreviewUrl' = "http"
            /\ bridgeFns' = IF r.stale THEN "stale" ELSE "live"
            /\ runs' = runs (-) SetToBag({r})
            /\ IF r.stale
               THEN UNCHANGED <<previewUrl, isRunning, isExporting, watcher>>
               ELSE /\ previewUrl' = "http"
                    /\ isRunning' = TRUE
                    /\ isExporting' = FALSE
                    /\ watcher' = fileWatcherEffect(TRUE)
            /\ UNCHANGED exportError
       ELSE /\ runPreviewCatch(r)
            /\ UNCHANGED <<storeVars, previewUrl, isRunning, serviceVars>>
    /\ UNCHANGED <<mounted, pendingChanges, refresh, backendVars, bridgeVars, deferred,
                   stopped, projectVars, chatVars, controllerVars>>
    /\ reRegister

\* stopPreview; the cleanup of the file-watcher effect stops the watcher
\* when previewUrl becomes null
stopPreview ==
    /\ previewUrl' = "null"
    /\ storePreviewUrl' = "null"
    /\ bridgeFns' = "null"
    /\ isRunning' = FALSE
    /\ changeBatch' = FALSE
    /\ watcher' = fileWatcherEffect(FALSE)
    /\ stopped' = TRUE

StopButton ==
    /\ mounted /\ (isRunning \/ previewUrl # "null")
    /\ stopPreview
    /\ UNCHANGED <<mounted, isExporting, exportError, pendingChanges, asyncVars,
                   fingerprint, cache, bridgeVars, historyVars, statusVars, server,
                   projectVars, chatVars, controllerVars>>
    /\ reRegister

\* forceRefresh up to its first await (invoke clear_export_cache)
ForceRefresh ==
    /\ mounted /\ (isRunning \/ previewUrl # "null")
    /\ refresh.pc = "idle"
    /\ stopPreview
    /\ refresh' = [pc |-> "invoked", stale |-> FALSE]
    /\ UNCHANGED <<mounted, isExporting, exportError, pendingChanges, runs,
                   fingerprint, cache, bridgeVars, historyVars, statusVars, server,
                   projectVars, chatVars, controllerVars>>
    /\ reRegister

\* clear_export_cache in the backend: all entries of the project are
\* removed; when it fails forceRefresh only logs the failure
ClearExportCache(ok) ==
    /\ refresh.pc = "invoked"
    /\ IF ok
       THEN /\ cache' = 0
            /\ refresh' = [refresh EXCEPT !.pc = "cleared"]
            /\ prev' = OtherReq
       ELSE /\ refresh' = [pc |-> "idle", stale |-> FALSE]
            /\ UNCHANGED <<cache, prev>>
    /\ UNCHANGED <<localVars, runs, storeVars, fingerprint, changeBatch,
                   bridgeVars, deferred, statusVars, serviceVars, stopped,
                   projectVars, chatVars, listenerVars, controllerVars>>

\* forceRefresh after the await has returned: runPreview(true)
ForceRefreshContinue ==
    /\ refresh.pc = "cleared"
    /\ refresh' = [pc |-> "idle", stale |-> FALSE]
    /\ runPreview(forceRefreshArg, refresh.stale)
    /\ UNCHANGED <<mounted, previewUrl, isRunning, storeVars, backendVars, bridgeVars,
                   serviceVars, projectVars, chatVars, controllerVars>>
    /\ reRegister

\* a file of the project is edited on disk
EditFile ==
    /\ fingerprint < MaxFp
    /\ fingerprint' = fingerprint + 1
    /\ changeBatch' = (changeBatch \/ WatcherOn)
    /\ UNCHANGED <<localVars, asyncVars, storeVars, cache, bridgeVars, historyVars,
                   statusVars, serviceVars, stopped, projectVars, chatVars, listenerVars, controllerVars>>

\* the run a listener starts by runPreview(true), with the projectPath of
\* its closure
ListenerRun(l) ==
    [pc |-> "export", stale |-> l.stale, path |-> l.path, fp |-> fingerprint,
     hit |-> CacheLookup(forceArg(TRUE)), last |-> Followed(TRUE)]

\* the branch a listener takes, by the isExporting of its closure
Rebuilds(l) == autoRebuild /\ ~l.exporting
Mounted(l) == ~l.stale

\* one project-files-changed event: the backend hands it to every listener
\* that is registered, the replaced ones before the current one.  A
\* listener calls runPreview(true) or setPendingChanges(true); the calls
\* of a listener of an unmounted instance reach no state
filesChanged(setPending) ==
    /\ changeBatch /\ WatcherOn
    /\ changeBatch' = FALSE
    /\ LET older == FilterBag(SetToBag(lingering), Rebuilds)
           newest == IF Rebuilds(currentListener)
                     THEN SetToBag({currentListener}) ELSE EmptyBag
           started == MapBag(older (+) newest, ListenerRun)
       IN  /\ BagCardinality(runs) + BagCardinality(started) <= MaxRuns
           /\ IF started = EmptyBag
              THEN /\ deferred' = (deferred \/ BuildsInFlight > 0)
                   /\ UNCHANGED <<runs, prev, statusVars, stopped>>
              ELSE /\ runs' = MapBag(runs, Unlast) (+) started
                   /\ deferred' = FALSE
                   /\ prev' = OtherReq
                   /\ setBuildStatus("building")
                   /\ stopped' = FALSE
           /\ IF Rebuilds(currentListener)
              THEN /\ isExporting' = TRUE
                   /\ exportError' = FALSE
                   /\ pendingChanges' = FALSE
              ELSE /\ pendingChanges' = (setPending \/ pendingChanges)
                   /\ IF FilterBag(older, Mounted) # EmptyBag
                      THEN isExporting' = TRUE /\ exportError' = FALSE
                      ELSE UNCHANGED <<isExporting, exportError>>
    /\ UNCHANGED <<mounted, previewUrl, isRunning, refresh, storeVars, fingerprint,
                   cache, bridgeVars, serviceVars, projectVars, chatVars, controllerVars>>
    /\ reRegister

\* mutant: the listener ignores a change batch that arrives during an export
ProjectFilesChangedIgnoresBusy == filesChanged(FALSE)

\* listener of "project-files-changed"
ProjectFilesChanged == filesChanged(TRUE)

\* the promise of listen of a replaced listener resolves: it is removed
Unlisten ==
    /\ \E l \in lingering : lingering' = lingering \ {l}
    /\ UNCHANGED <<listenLag, localVars, asyncVars, storeVars, backendVars, bridgeVars, historyVars,
                   statusVars, serviceVars, stopped, projectVars, chatVars, controllerVars>>

\* a file tab is selected: TabbedEditor unmounts the Viewfinder.  Its
\* suspended functions go on, their setState calls reach no instance, and
\* the bridge functions left in the store refer to an iframe that is gone
Unmount ==
    /\ mounted
    /\ mounted' = FALSE
    /\ previewUrl' = "null" /\ isRunning' = FALSE /\ isExporting' = FALSE
    /\ exportError' = FALSE /\ pendingChanges' = FALSE
    /\ runs' = MapBag(runs, Stale)
    /\ refresh' = IF refresh.pc = "idle" THEN refresh ELSE [refresh EXCEPT !.stale = TRUE]
    /\ bridgeFns' = IF bridgeFns = "live" THEN "stale" ELSE bridgeFns
    /\ changeBatch' = FALSE
    /\ watcher' = fileWatcherEffect(FALSE)
    /\ lingering' \in IF listenLag
                      THEN {StaleSet(lingering), StaleSet(lingering \cup Listeners)}
                      ELSE {lingering}
    /\ UNCHANGED listenLag
    /\ UNCHANGED <<storePreviewUrl, fingerprint, cache, bridgeVars, historyVars,
                   statusVars, server, stopped, projectVars, chatVars, controllerVars>>

\* the Game tab is selected again: a new Viewfinder instance
Mount ==
    /\ ~mounted
    /\ mounted' = TRUE
    /\ UNCHANGED <<previewUrl, isRunning, isExporting, exportError, pendingChanges,
                   asyncVars, storeVars, backendVars, bridgeVars, historyVars,
                   statusVars, serviceVars, stopped, projectVars, chatVars, listenerVars, controllerVars>>

\* an auto-clear timer expires: the status is reset to idle when it has
\* the value the timer holds
StatusTimeout(t) ==
    /\ t \in statusTimers
    /\ buildStatus' = IF buildStatus = t.status THEN "idle" ELSE buildStatus
    /\ statusTimers' \in {statusTimers \ {t}} \cup (IF t.late THEN {statusTimers} ELSE {})
    /\ UNCHANGED allTimers
    /\ UNCHANGED <<localVars, asyncVars, storeVars, backendVars, bridgeVars, historyVars,
                   serviceVars, stopped, projectVars, chatVars, listenerVars, controllerVars>>

\* openProject of the store after the folder dialog has returned: another
\* directory becomes the project.  The Viewfinder stays mounted and keeps
\* its previewUrl; the file-watcher effect is replaced because projectPath
\* is one of its dependencies, its cleanup stops the watcher and its body
\* starts one for the new directory if there is a previewUrl.  The
\* fingerprint and the cache entry are those of the directory opened;
\* suspended runPreview invocations keep the projectPath of their closure
OpenProject ==
    /\ \E p \in Projects \ {projectPath} : projectPath' = p
    /\ \E f \in 1..MaxFp, k \in 0..MaxFp : fingerprint' = f /\ cache' = k
    /\ changeBatch' = FALSE
    /\ watcher' = fileWatcherEffect(WatcherOn)
    /\ prev' = OtherReq
    /\ UNCHANGED <<localVars, asyncVars, storeVars, bridgeVars, deferred, statusVars,
                   server, stopped, inputMappings, chatVars, controllerVars>>
    /\ reRegister

ExportReturns == \E r \in DOMAIN runs, ok \in BOOLEAN : ExportReturn(r, ok)
ServerReturns == \E r \in DOMAIN runs, ok \in BOOLEAN : ServerReturn(r, ok)
ClearReturns == \E ok \in BOOLEAN : ClearExportCache(ok)
StatusTimeouts == \E t \in statusTimers : StatusTimeout(t)

NextBuild ==
    \/ Initialize
    \/ PlayButton
    \/ ReAttempt
    \/ RebuildButton
    \/ StopButton
    \/ ForceRefresh
    \/ ClearReturns
    \/ ForceRefreshContinue
    \/ ExportReturns
    \/ ServerReturns
    \/ EditFile
    \/ ProjectFilesChanged
    \/ Unmount
    \/ Mount
    \/ StatusTimeouts

SpecBuild == Init /\ [][NextBuild]_vars

\* the build side when listeners may stay registered after their cleanup
NextWatcher ==
    \/ NextBuild
    \/ Unlisten

SpecWatcher == InitWatcher /\ [][NextWatcher]_vars

\* the build side with every auto-clear timer kept
SpecStatus == InitStatus /\ [][NextBuild]_vars

\* ------------------------------------------------ bridge channel: helpers
ResultType(op) ==
    CASE op = "captureFrame" -> "kobold-capture-result"
      [] op = "testControls" -> "kobold-test-result"
      [] op = "captureNode" -> "kobold-capture-node-result"

ErrorType(op) ==
    CASE op = "captureFrame" -> "kobold-capture-error"
      [] op = "testControls" -> "kobold-test-error"
      [] op = "captureNode" -> "kobold-capture-node-error"

\* iframeRef.current?.contentWindow of the instance whose closures the
\* store holds: present while that instance is mounted and renders the iframe
FramePresent == bridgeFns = "live" /\ mounted /\ previewUrl # "null"

\* resolve of a Promise: only the first call settles it
resolve(call, outcome) ==
    IF call.outcome = "pending" THEN [call EXCEPT !.outcome = outcome] ELSE call

\* window.removeEventListener('message', handler)
removeEventListener(call) ==
    IF call.listener = "registered" THEN [call EXCEPT !.listener = "removed"] ELSE call

\* mutants of the captureFrame listener: one that stays registered after a
\* result, one that matches every type that begins with kobold-capture
captureFrameHandlerKeepsListener(call, m) ==
    IF m.type = "kobold-capture-result"
    THEN resolve(call, "result")
    ELSE IF m.type = "kobold-capture-error"
    THEN resolve(removeEventListener(call), "null")
    ELSE call

captureFrameHandlerPrefixMatch(call, m) ==
    IF m.type \in {"kobold-capture-result", "kobold-capture-node-result"}
    THEN resolve(removeEventListener(call), "result")
    ELSE IF m.type \in {"kobold-capture-error", "kobold-capture-node-error"}
    THEN resolve(removeEventListener(call), "null")
    ELSE call

\* the message listeners of the three operations
captureFrameHandler(call, m) ==
    IF m.type = "kobold-capture-result"
    THEN resolve(removeEventListener(call), "result")
    ELSE IF m.type = "kobold-capture-error"
    THEN resolve(removeEventListener(call), "null")
    ELSE call

testControlsHandler(call, m) ==
    IF m.type = "kobold-test-result"
    THEN resolve(removeEventListener(call), "result")
    ELSE IF m.type = "kobold-test-error"
    THEN resolve(removeEventListener(call), "null")
    ELSE call

captureNodeHandler(call, m) ==
    IF m.type = "kobold-capture-node-result" /\ m.requestId = call.requestId
    THEN resolve(removeEventListener(call), "result")
    ELSE IF m.type = "kobold-capture-node-error" /\ m.requestId = call.requestId
    THEN resolve(removeEventListener(call), "null")
    ELSE call

handler(call, m) ==
    CASE call.op = "captureFrame" -> captureFrameHandler(call, m)
      [] call.op = "testControls" -> testControlsHandler(call, m)
      [] call.op = "captureNode" -> captureNodeHandler(call, m)

\* the requestId field of the posted request: Date.now().toString() for
\* captureNode (the decimal strings of distinct integers are distinct, so
\* the string is represented by the integer), no field for the other two
requestIdOf(op) == IF op = "captureNode" THEN now ELSE NoId

\* mutant: the branch without an iframe returns without resolving
IssueCallNoResolve(op) ==
    IF ~FramePresent
    THEN [NoCall EXCEPT !.op = op]
    ELSE [op |-> op, requestId |-> requestIdOf(op), listener |-> "registered",
          timer |-> "armed", outcome |-> "pending"]

\* the executor of the Promise a bridge function returns
IssueCall(op) ==
    IF ~FramePresent
    THEN [NoCall EXCEPT !.op = op, !.outcome = "null"]
    ELSE [op |-> op, requestId |-> requestIdOf(op), listener |-> "registered",
          timer |-> "armed", outcome |-> "pending"]

\* mutant: the timer rejects the Promise of a call that is still pending
timeoutCallbackRejects(call) ==
    [removeEventListener(call) EXCEPT
        !.timer = "fired",
        !.outcome = IF call.outcome = "pending" THEN "rejected" ELSE call.outcome]

\* the callback of the setTimeout of a call
timeoutCallback(call) ==
    [resolve(removeEventListener(call), "null") EXCEPT !.timer = "fired"]

\* a message event of the host window: every registered listener runs
Dispatch(m) ==
    [c \in Calls |-> IF calls[c].listener = "registered"
                     THEN handler(calls[c], m) ELSE calls[c]]

\* calls whose request was posted to the artifact
Posted == {c \in Calls : calls[c].listener # "none"}
\* calls that a step settles or whose listener it removes
Changed == {c \in Calls : calls[c].outcome # calls'[c].outcome
                          \/ calls[c].listener # calls'[c].listener}

\* messages the artifact may post to the host window: a result or an error
\* for a request it has received (re), echoing the request's requestId, at
\* any time and any number of times; or a message of another type
Replies ==
    UNION {{[type |-> t, requestId |-> calls[c].requestId, re |-> c] :
               t \in {ResultType(calls[c].op), ErrorType(calls[c].op)}} : c \in Posted}
OtherMessage == [type |-> "kobold-other", requestId |-> NoId, re |-> 0]

\* ------------------------------------------------ bridge channel: actions
\* the call of a bridge function: the next Promise is created
InvokeBridge(op) ==
    \E c \in Calls :
        /\ calls[c].op = "none"
        /\ \A d \in Calls : d < c => calls[d].op # "none"
        /\ calls' = [calls EXCEPT ![c] = IssueCall(op)]

\* a caller reads a bridge function from the store and calls it
Call(op) ==
    /\ bridgeFns # "null"
    /\ InvokeBridge(op)
    /\ UNCHANGED <<localVars, asyncVars, storeVars, backendVars, now, historyVars,
                   statusVars, serviceVars, stopped, projectVars, chatVars, listenerVars, controllerVars>>

OnMessage(m) ==
    /\ calls' = Dispatch(m)
    /\ UNCHANGED <<localVars, asyncVars, storeVars, backendVars, now, historyVars,
                   statusVars, serviceVars, stopped, projectVars, chatVars, listenerVars, controllerVars>>

\* the timer of call c expires
Timeout(c) ==
    /\ calls[c].timer = "armed"
    /\ calls' = [calls EXCEPT ![c] = timeoutCallback(calls[c])]
    /\ UNCHANGED <<localVars, asyncVars, storeVars, backendVars, now, historyVars,
                   statusVars, serviceVars, stopped, projectVars, chatVars, listenerVars, controllerVars>>

\* the millisecond clock advances; the clock is read by captureNode only,
\* so only the advances after a request that carries its value are taken
Tick ==
    /\ now < MaxClock
    /\ \E c \in Posted : calls[c].requestId = now
    /\ now' = now + 1
    /\ UNCHANGED <<localVars, asyncVars, storeVars, backendVars, calls, historyVars,
                   statusVars, serviceVars, stopped, projectVars, chatVars, listenerVars, controllerVars>>

Calling == \E op \in Ops : Call(op)
Messages == \E m \in Replies \cup {OtherMessage} : OnMessage(m)
Timeouts == \E c \in Calls : Timeout(c)
FirstPreview == runs = EmptyBag /\ Initialize
ExportSucceeds == \E r \in DOMAIN runs : ExportReturn(r, TRUE)
ServerSucceeds == \E r \in DOMAIN runs : ServerReturn(r, TRUE)

\* the bridge channel over previews that build and bind, one at a time
NextBridge ==
    \/ FirstPreview
    \/ ExportSucceeds
    \/ ServerSucceeds
    \/ StopButton
    \/ Unmount
    \/ Mount
    \/ Calling
    \/ Messages
    \/ Timeouts
    \/ Tick

SpecBridge == Init /\ [][NextBridge]_vars

\* every timer that was armed expires
LiveBridge == SpecBridge /\ \A c \in Calls : WF_vars(Timeout(c))

\* previews of a session in which other projects are opened
NextProject ==
    \/ FirstPreview
    \/ ExportSucceeds
    \/ ServerSucceeds
    \/ StopButton
    \/ Unmount
    \/ Mount
    \/ OpenProject
    \/ EditFile
    \/ ProjectFilesChanged

SpecProject == Init /\ [][NextProject]_vars

\* ------------------------------------------------ control test: helpers
\* strings are the strings of the code; s.includes(t)
Includes(s, t) ==
    \E i \in 1..(Len(s) - Len(t) + 1) : SubSeq(s, i, i + Len(t) - 1) = t

CharAt(s, i) == SubSeq(s, i, i)

UpperCase == "ABCDEFGHIJKLMNOPQRSTUVWXYZ"
LowerCase == "abcdefghijklmnopqrstuvwxyz"
WordChars == UpperCase \o LowerCase \o "0123456789_"

RECURSIVE toLowerCase(_)
toLowerCase(s) ==
    IF Len(s) = 0 THEN s
    ELSE LET ch == CharAt(s, 1)
             lo == IF Includes(UpperCase, ch)
                   THEN CharAt(LowerCase, CHOOSE i \in 1..26 : CharAt(UpperCase, i) = ch)
                   ELSE ch
         IN  lo \o toLowerCase(SubSeq(s, 2, Len(s)))

RECURSIVE trim(_)
trim(s) ==
    IF Len(s) = 0 THEN s
    ELSE IF CharAt(s, 1) = " " THEN trim(SubSeq(s, 2, Len(s)))
    ELSE IF CharAt(s, Len(s)) = " " THEN trim(SubSeq(s, 1, Len(s) - 1))
    ELSE s

\* s.split(sep) for a separator of one character
RECURSIVE split(_, _)
split(s, sep) ==
    IF ~Includes(s, sep) THEN <<s>>
    ELSE LET i == CHOOSE k \in 1..Len(s) :
                     CharAt(s, k) = sep /\ \A j \in 1..(k - 1) : CharAt(s, j) # sep
         IN  <<SubSeq(s, 1, i - 1)>> \o split(SubSeq(s, i + 1, Len(s)), sep)

\* /\b(w)\b/.test(s): an occurrence of w with no word character next to it
WordMatch(s, w) ==
    \E i \in 1..(Len(s) - Len(w) + 1) :
        /\ SubSeq(s, i, i + Len(w) - 1) = w
        /\ i = 1 \/ ~Includes(WordChars, CharAt(s, i - 1))
        /\ i + Len(w) - 1 = Len(s) \/ ~Includes(WordChars, CharAt(s, i + Len(w)))

IncludesAny(s, T) == \E t \in T : Includes(s, t)
WordMatchAny(s, W) == \E w \in W : WordMatch(s, w)

\* const input = currentInput.trim().toLowerCase()
InputOf(text) == toLowerCase(trim(text))

wantsControlTest(input) ==
    WordMatchAny(input, {"test", "try", "check", "use", "press", "move", "walk", "run",
                         "jump", "control", "controls", "controller", "movement", "input"})
wantsAll(input) == IncludesAny(input, {"all", "every", "full"})
wantsMovement(input) ==
    IncludesAny(input, {"movement", "wasd", "walk", "move around", "locomotion"})
wantsCamera(input) == IncludesAny(input, {"camera", "look", "view", "orbit", "rotate"})
wantsControls(input) == IncludesAny(input, {"control", "controller"})

ActionsOf(mappings) == [i \in 1..Len(mappings) |-> mappings[i].action]

IsMoveWalkLook(m) ==
    Includes(m.action, "move") \/ Includes(m.action, "walk") \/ Includes(m.action, "look")
IsMoveWalk(m) == Includes(m.action, "move") \/ Includes(m.action, "walk")

\* the test of the loop over the mappings
Mentions(input, m) ==
    LET actionWords == split(toLowerCase(m.action), "_")
        descWords == split(toLowerCase(m.description), " ")
    IN  \/ \E k \in 1..Len(actionWords) :
              Len(actionWords[k]) > 2 /\ Includes(input, actionWords[k])
        \/ Includes(input, toLowerCase(m.action))
        \/ \E k \in 1..Len(descWords) :
              Len(descWords[k]) > 3 /\ Includes(input, descWords[k])
        \/ Includes(m.action, "jump") /\ Includes(input, "jump")
        \/ Includes(m.action, "attack") /\ IncludesAny(input, {"attack", "click"})
        \/ Includes(m.action, "interact") /\ IncludesAny(input, {"interact", "use"})

\* actionsToTest after the three branches on the request
Requested(input, mappings) ==
    IF wantsAll(input)
       \/ (wantsControls(input) /\ ~WordMatchAny(input, {"jump", "attack", "interact"}))
    THEN ActionsOf(mappings)
    ELSE IF wantsMovement(input) \/ wantsCamera(input)
    THEN ActionsOf(SelectSeq(mappings, IsMoveWalkLook))
    ELSE ActionsOf(SelectSeq(mappings, LAMBDA m : Mentions(input, m)))

UltimateFallback == <<"move_up", "move_left", "move_right", "move_down">>

\* actionsToTest after the default for an empty list
WithDefault(list, mappings) ==
    IF Len(list) # 0 THEN list
    ELSE IF Len(SelectSeq(mappings, IsMoveWalk)) > 0
    THEN ActionsOf(SelectSeq(mappings, IsMoveWalk))
    ELSE UltimateFallback

\* mutant: the list is dispatched as it was resolved
RemoveDuplicatesKeepsAll(list) == list

\* [...new Set(actionsToTest)]: the first occurrence of each action, in order
RECURSIVE RemoveDuplicates(_)
RemoveDuplicates(list) ==
    IF Len(list) = 0 THEN list
    ELSE LET front == RemoveDuplicates(SubSeq(list, 1, Len(list) - 1))
             x == list[Len(list)]
         IN  IF \E i \in 1..Len(front) : front[i] = x THEN front ELSE Append(front, x)

\* the list sendMessage passes to testControls
actionsToTest(text, mappings) ==
    RemoveDuplicates(WithDefault(Requested(InputOf(text), mappings), mappings))

\* the tables get_input_mappings may return, and the texts typed
MappingPool ==
    { [action |-> "move_left", description |-> "Move left"],
      [action |-> "look_up", description |-> "Look up"],
      [action |-> "jump", description |-> "Jump"] }
Tables == UNION {[1..n -> MappingPool] : n \in 0..MaxMappings}
Texts ==
    { "test all controls", "check the controller", "Test Movement", "try the camera",
      "press jump", "test attack then jump", "use the lever", "  run  ",
      "describe the scene" }

\* ------------------------------------------------ control test: actions
\* setCurrentInput of the store: the user types a request
setCurrentInput(text) ==
    /\ currentInput = ""
    /\ currentInput' = text
    /\ UNCHANGED <<localVars, asyncVars, storeVars, backendVars, bridgeVars, historyVars,
                   statusVars, serviceVars, stopped, projectVars, dispatched,
                   thread, isLoading, listenerVars, controllerVars>>

\* loadInputMappings of the store, when get_input_mappings has returned;
\* the table of a project is loaded once
loadInputMappings(mappings) ==
    /\ inputMappings = <<>>
    /\ inputMappings' = mappings
    /\ UNCHANGED <<localVars, asyncVars, storeVars, backendVars, bridgeVars, historyVars,
                   statusVars, serviceVars, stopped, projectPath, chatVars, listenerVars, controllerVars>>

\* the Promise the next bridge call creates
NextCall ==
    CHOOSE c \in Calls :
        calls[c].op = "none" /\ \A d \in Calls : d < c => calls[d].op # "none"

\* the assistant message sendMessage appends, and the await it is at
Placeholder(pc, c) ==
    [pc |-> pc, call |-> c, isStreaming |-> TRUE,
     content |-> IF pc = "bridge" THEN "progress" ELSE "none"]

\* sendMessage in chat mode play, up to its first await: the placeholder is
\* appended, then a control test calls testControls with the resolved
\* list and any other request calls captureFrame; without bridge functions
\* (as in the other chat modes) the agent is invoked
sendMessage ==
    /\ trim(currentInput) # ""
    /\ Len(thread) < MaxSends
    /\ currentInput' = ""
    /\ isLoading' = TRUE
    /\ IF bridgeFns = "null"
       THEN /\ thread' = Append(thread, Placeholder("backend", 0))
            /\ UNCHANGED <<calls, dispatched>>
       ELSE IF wantsControlTest(InputOf(currentInput))
       THEN /\ dispatched' = {actionsToTest(currentInput, inputMappings)}
            /\ InvokeBridge("testControls")
            /\ thread' = Append(thread, Placeholder("bridge", NextCall))
       ELSE /\ InvokeBridge("captureFrame")
            /\ thread' = Append(thread, Placeholder("bridge", NextCall))
            /\ UNCHANGED dispatched
    /\ UNCHANGED <<localVars, asyncVars, storeVars, backendVars, now, historyVars,
                   statusVars, serviceVars, stopped, projectVars, listenerVars, controllerVars>>

\* mutant: the catch block leaves the placeholder as it is
sendMessageCatchKeepsStreaming(i) ==
    /\ thread' = [thread EXCEPT ![i].pc = "done", ![i].content = "error"]
    /\ isLoading' = FALSE

\* the catch block of sendMessage
sendMessageCatch(i) ==
    /\ thread' = [thread EXCEPT ![i].pc = "done", ![i].content = "error",
                                ![i].isStreaming = FALSE]
    /\ isLoading' = FALSE

\* the end of the try block of sendMessage
sendMessageComplete(i) ==
    /\ thread' = [thread EXCEPT ![i].pc = "done", ![i].content = "response",
                                ![i].isStreaming = FALSE]
    /\ isLoading' = FALSE

\* testControls or captureFrame has returned: null is thrown as an Error,
\* a result is handed to test_game_controls or analyze_game_frame
BridgeReturn(i) ==
    /\ i \in 1..Len(thread)
    /\ thread[i].pc = "bridge"
    /\ calls[thread[i].call].outcome # "pending"
    /\ IF calls[thread[i].call].outcome = "null"
       THEN sendMessageCatch(i)
       ELSE /\ thread' = [thread EXCEPT ![i].pc = "backend"]
            /\ UNCHANGED isLoading
    /\ UNCHANGED <<localVars, asyncVars, storeVars, backendVars, bridgeVars, historyVars,
                   statusVars, serviceVars, stopped, projectVars, currentInput,
                   dispatched, listenerVars, controllerVars>>

\* the command of the backend that sendMessage awaits has returned
\* (test_game_controls, analyze_game_frame, send_agent_message followed by
\* loadFiles) or was rejected
BackendReturn(i, ok) ==
    /\ i \in 1..Len(thread)
    /\ thread[i].pc = "backend"
    /\ IF ok THEN sendMessageComplete(i) ELSE sendMessageCatch(i)
    /\ UNCHANGED <<localVars, asyncVars, storeVars, backendVars, bridgeVars, historyVars,
                   statusVars, serviceVars, stopped, projectVars, currentInput,
                   dispatched, listenerVars, controllerVars>>

\* stopGeneration of the store
stopGeneration ==
    /\ isLoading
    /\ isLoading' = FALSE
    /\ UNCHANGED <<localVars, asyncVars, storeVars, backendVars, bridgeVars, historyVars,
                   statusVars, serviceVars, stopped, projectVars, currentInput,
                   dispatched, thread, listenerVars, controllerVars>>

Typing == \E text \in Texts : setCurrentInput(text)
MappingsLoaded == \E mappings \in Tables : loadInputMappings(mappings)

\* control tests over a preview that builds and binds
NextControls ==
    \/ FirstPreview
    \/ ExportSucceeds
    \/ ServerSucceeds
    \/ MappingsLoaded
    \/ Typing
    \/ sendMessage

SpecControls == Init /\ [][NextControls]_vars

\* a request for a control test and one for a description of the frame
ChatTexts == {"press jump", "describe the scene"}
ChatTyping == \E text \in ChatTexts : setCurrentInput(text)
BridgeReturns == \E i \in 1..Len(thread) : BridgeReturn(i)
BackendReturns == \E i \in 1..Len(thread), ok \in BOOLEAN : BackendReturn(i, ok)

\* chat requests from their placeholder to their end, with and without a
\* preview, while the artifact answers or stays silent
NextChat ==
    \/ FirstPreview
    \/ ExportSucceeds
    \/ ServerSucceeds
    \/ ChatTyping
    \/ sendMessage
    \/ Messages
    \/ Timeouts
    \/ BridgeReturns
    \/ BackendReturns
    \/ stopGeneration

SpecChat == Init /\ [][NextChat]_vars

\* ------------------------------------------------ bridge channel: claims

\* C1: every bridge call has one outcome, fixed by the first of result,
\* error and timeout: a settled outcome never changes, a removed listener
\* is never registered again, and the listener of a call is registered
\* exactly while the call is issued and not settled
C1_ResolvesOnce ==
    [][\A c \in Calls :
        /\ calls[c].outcome # "pending" => calls'[c].outcome = calls[c].outcome
        /\ calls[c].listener = "removed" => calls'[c].listener = "removed"
        /\ calls'[c].listener = "registered" <=>
              (calls'[c].op # "none" /\ calls'[c].outcome = "pending")]_vars

\* a call that a result settled and whose timer expired afterwards
C1_Witness ==
    \E c \in Calls : calls[c].outcome = "result" /\ calls[c].timer = "fired"

\* C2: one response message settles at most the call whose request it
\* answers, also when two calls of the same operation are pending
C2_NoCrossDelivery ==
    [][\A m \in Replies : calls' = Dispatch(m) => Changed \subseteq {m.re}]_vars

\* C3: a response that arrives after its own call was settled settles no
\* other call
C3_LateResponseDiscarded ==
    [][\A m \in Replies :
        (calls[m.re].outcome # "pending" /\ calls' = Dispatch(m)) => Changed = {}]_vars

\* C6: every bridge call that was issued is eventually settled, with a
\* result or with null
C6_EventuallyResolves ==
    \A c \in Calls : (calls[c].op # "none") ~> (calls[c].outcome # "pending")

\* a call is pending and the preview it was issued to has been stopped
C6_Witness ==
    \E c \in Calls : calls[c].listener = "registered" /\ bridgeFns = "null"

\* C7: every posted request carries a correlation id, and no two requests
\* carry the same one
C7_FreshCorrelationIds ==
    \A c \in Posted :
        /\ calls[c].requestId # NoId
        /\ \A d \in Posted : d # c => calls[d].requestId # calls[c].requestId

\* C8: a message settles only calls of the operation whose request it
\* answers, and the expiry of a timer settles only its own call
C8_TypesIndependent ==
    [][/\ \A m \in Replies :
             calls' = Dispatch(m) => \A c \in Changed : calls[c].op = calls[m.re].op
       /\ \A c \in Calls :
             calls'[c].timer # calls[c].timer => Changed \subseteq {c}]_vars

\* a call was settled by a result while an earlier call of another
\* operation is still pending
C8_Witness ==
    \E c, d \in Calls :
        /\ d < c
        /\ calls[c].outcome = "result"
        /\ calls[d].op \notin {"none", calls[c].op}
        /\ calls[d].listener = "registered"

\* C11: a bridge call is never rejected: a call whose timer expires while
\* it is pending, a call whose error message arrives while it is pending and
\* a call issued without a preview frame are settled with null, and no
\* listener of such a call stays registered
C11_NeverRejects ==
    [][\A c \in Calls :
        /\ calls'[c].outcome \in {"pending", "result", "null"}
        /\ (/\ calls[c].outcome = "pending"
            /\ calls[c].timer = "armed" /\ calls'[c].timer = "fired")
              => (calls'[c].outcome = "null" /\ calls'[c].listener = "removed")
        /\ \A m \in Replies :
              (/\ m.re = c /\ m.type = ErrorType(calls[c].op)
               /\ calls[c].outcome = "pending" /\ calls' = Dispatch(m))
              => (calls'[c].outcome = "null" /\ calls'[c].listener = "removed")
        /\ (calls[c].op = "none" /\ calls'[c].op # "none" /\ ~FramePresent)
              => (calls'[c].outcome = "null" /\ calls'[c].listener = "none")]_vars

\* one call was settled with null by its timer, another one was issued
\* without a preview frame
C11_Witness ==
    \E c, d \in Calls :
        /\ calls[c].outcome = "null" /\ calls[c].timer = "fired"
        /\ calls[c].listener = "removed"
        /\ calls[d].op # "none" /\ calls[d].outcome = "null"
        /\ calls[d].listener = "none"

\* C12: after a testControls call has timed out, a call issued afterwards
\* is settled by its own result when that arrives while it is pending, and
\* the late reply of the timed-out call leaves it as it is
C12_UsableAfterTimeout ==
    [][\A m \in Replies, c, d \in Calls :
        (/\ calls[c].op = "testControls" /\ calls[c].timer = "fired"
         /\ calls[c].outcome = "null"
         /\ c < d /\ calls[d].outcome = "pending" /\ calls[d].listener = "registered"
         /\ calls' = Dispatch(m))
        => /\ (m.re = d /\ m.type = ResultType(calls[d].op)) => calls'[d].outcome = "result"
           /\ m.re = c => calls'[d] = calls[d]]_vars

\* ------------------------------------------------ build side: claims

\* C4: at most one invocation of the external build tool is in flight
C4_OneBuildInFlight == BuildsInFlight <= 1

\* C5: when a rebuild trigger arrived during a build, a follow-up build is
\* running as soon as that build has completed
C5_FollowUpBuild == deferred => BuildsInFlight > 0

UnforcedRequest == Initialize \/ PlayButton \/ ReAttempt
AllHits(b) == \A r \in DOMAIN b : r.hit

\* C9: the second of two consecutive unforced requests over unchanged
\* inputs is a cache hit
C9_SecondIsCacheHit ==
    [][(UnforcedRequest /\ prev.kind \in {"ok", "failed"} /\ prev.fp = fingerprint)
          => AllHits(runs')]_vars

\* C9, amended: the second of two consecutive unforced requests over
\* unchanged inputs is a cache hit and invokes no build when the export of
\* the first request succeeded and no other export and no cache clear
\* overlapped the two requests
C9_SecondIsCacheHitAfterSuccess ==
    [][(UnforcedRequest /\ prev.kind = "ok" /\ prev.fp = fingerprint)
          => (AllHits(runs') /\ BuildsInFlight' = 0 /\ cache' = fingerprint)]_vars

\* the second request is suspended as a cache hit on the stored artifact
C9_Witness ==
    \E r \in DOMAIN runs :
        /\ r.pc = "export" /\ r.hit /\ r.last
        /\ cache = r.fp /\ BagCardinality(runs) = 1

PreviewStarted == BagCardinality(runs') > BagCardinality(runs)

\* the steps that answer a request of the user or a trigger of the watcher
RequestOrTrigger ==
    \/ Initialize \/ PlayButton \/ ReAttempt \/ RebuildButton
    \/ ForceRefreshContinue \/ ProjectFilesChanged

\* C13: when the export fails the build status becomes error, the mounted
\* Viewfinder holds the error text, and the failing step starts no build;
\* a build is started only by a request or a trigger
C13_FailureNotRetried ==
    [][/\ \A r \in DOMAIN runs :
             ExportReturn(r, FALSE) =>
                /\ buildStatus' = "error"
                /\ ~r.stale => (exportError' /\ ~isExporting')
                /\ runs' = runs (-) SetToBag({r})
       /\ PreviewStarted => RequestOrTrigger]_vars

\* the export has failed: error status, error text, nothing in flight
C13_Witness ==
    /\ buildStatus = "error" /\ exportError /\ ~isExporting
    /\ runs = EmptyBag /\ cache = 0 /\ previewUrl = "null"

\* C14: when start_preview_server fails the session does not enter the
\* error state
C14_BindFailureStaysReady ==
    [][\A r \in DOMAIN runs :
          ServerReturn(r, FALSE) =>
             (buildStatus' # "error" /\ (exportError' => exportError))]_vars

\* C15: a change notification starts a build or sets the pending-changes
\* indication, and the indication stays set until runPreview is entered
C15_NoChangeDropped ==
    [][/\ ProjectFilesChanged => (BuildsInFlight' > BuildsInFlight \/ pendingChanges')
       /\ (pendingChanges /\ ~pendingChanges') => PreviewStarted]_vars

\* C15, amended: a change notification starts a build or sets the
\* pending-changes indication, and the indication stays set until
\* runPreview is entered or the Viewfinder is unmounted
C15_NoChangeDroppedWhileMounted ==
    [][/\ ProjectFilesChanged => (BuildsInFlight' > BuildsInFlight \/ pendingChanges')
       /\ (pendingChanges /\ ~pendingChanges') => (PreviewStarted \/ ~mounted')]_vars

\* a notification arrived during a build and the indication is set
C15_Witness == pendingChanges /\ isExporting /\ BuildsInFlight > 0 /\ WatcherOn

\* C16: start_file_watcher is the last watcher command exactly while the
\* Viewfinder shows a preview, and once the preview is stopped, the
\* Viewfinder is unmounted or another project is opened, the last watcher
\* command is stop_file_watcher
C16_WatcherScoped ==
    [][/\ watcher' = "start" <=> WatcherOn'
       /\ (WatcherOn /\ (~WatcherOn' \/ projectPath' # projectPath))
             => watcher' = "stop"]_vars

\* C17: once stopPreview has run, in the stop button or in forceRefresh, no
\* preview server is bound until a preview is requested again
C17_NoServerLeftBound == stopped => server = "none"

\* C20: once stopPreview has run, previewUrl and the bridge functions stay
\* null, in the Viewfinder and in the store, until a preview is requested
\* again
C20_StaysStopped ==
    stopped => (previewUrl = "null" /\ storePreviewUrl = "null" /\ bridgeFns = "null")

\* ------------------------------------------------ control test: claims
\* a step in which sendMessage calls testControls
ControlTestSent ==
    sendMessage /\ bridgeFns # "null" /\ wantsControlTest(InputOf(currentInput))

Declared == {inputMappings[i].action : i \in 1..Len(inputMappings)}

\* C18: every action passed to testControls is an action of inputMappings,
\* and when the request selected no action the list is the movement
\* actions of inputMappings
C18_OnlyDeclaredActions ==
    [][ControlTestSent =>
          \A list \in dispatched' :
             /\ \A i \in 1..Len(list) : list[i] \in Declared
             /\ Len(Requested(InputOf(currentInput), inputMappings)) = 0
                  => list = RemoveDuplicates(ActionsOf(SelectSeq(inputMappings, IsMoveWalk)))]_vars

\* C19: a list passed to testControls is not empty and holds no action twice
C19_NonEmptyNoDuplicates ==
    \A list \in dispatched :
        /\ Len(list) > 0
        /\ \A i, j \in 1..Len(list) : list[i] = list[j] => i = j

\* a list was dispatched that was resolved from a table with an action
\* declared twice
C19_Witness ==
    \E list \in dispatched, i, j \in 1..Len(inputMappings) :
        /\ i < j /\ inputMappings[i].action = inputMappings[j].action
        /\ list = <<inputMappings[i].action>>

\* ------------------------------------------------ build session: claims
\* the transitions of the build status the design lists
ListedTransition(from, to) ==
    <<from, to>> \in {<<"idle", "building">>, <<"building", "success">>,
                      <<"building", "error">>, <<"success", "building">>,
                      <<"error", "building">>}

\* C21: the build status changes only along idle -> building,
\* building -> success, building -> error, success -> building and
\* error -> building
C21_OnlyListedTransitions ==
    [][ListedTransition(buildStatus, buildStatus')]_buildStatus

\* C22: one project-files-changed event starts at most one build
C22_OneBuildPerBatch ==
    [][ProjectFilesChanged => BuildsInFlight' <= BuildsInFlight + 1]_vars

\* C23: every way runPreview ends, for the instance that is mounted,
\* leaves isExporting false; and when it has failed and no preview is
\* shown, the Re-Attempt button is enabled and starts a new runPreview
C23_NotStuckAfterFailure ==
    /\ [][\A r \in DOMAIN runs :
             (~r.stale /\ (ExportReturn(r, FALSE) \/ ServerReturn(r, FALSE)
                               \/ ServerReturn(r, TRUE)))
                => ~isExporting']_vars
    /\ []((mounted /\ exportError /\ ~isExporting /\ previewUrl = "null"
             /\ BagCardinality(runs) < MaxRuns) => ENABLED ReAttempt)
    /\ [][ReAttempt => (PreviewStarted /\ isExporting' /\ ~exportError')]_vars

\* start_preview_server has failed after a build that stored its artifact:
\* the error is shown, nothing is in flight and isExporting is false
C23_Witness ==
    /\ mounted /\ exportError /\ ~isExporting /\ previewUrl = "null"
    /\ runs = EmptyBag /\ cache = fingerprint /\ buildStatus = "error"

\* runPreview invocations that wait for start_preview_server
IsServing(r) == r.pc = "server"
Serving(b) == BagCardinality(FilterBag(b, IsServing))

\* a step that sets previewUrl or the bridge functions
Published ==
    \/ previewUrl' = "http" /\ previewUrl = "null"
    \/ storePreviewUrl' = "http" /\ storePreviewUrl = "null"
    \/ bridgeFns' # "null" /\ bridgeFns = "null"
    \/ bridgeFns' = "live" /\ bridgeFns # "live"

\* C24: previewUrl and the bridge functions are set only by a runPreview
\* whose start_preview_server has succeeded, start_preview_server is
\* invoked only by a runPreview whose export has succeeded, and a failed
\* export invokes nothing
C24_BuildServeBridge ==
    [][/\ Published => \E r \in DOMAIN runs : r.pc = "server" /\ ServerReturn(r, TRUE)
       /\ Serving(runs') > Serving(runs)
             => \E r \in DOMAIN runs : r.pc = "export" /\ ExportReturn(r, TRUE)
       /\ \A r \in DOMAIN runs :
             ExportReturn(r, FALSE)
                => (Serving(runs') = Serving(runs) /\ ~Published /\ UNCHANGED server)]_vars

\* a preview is published by a run that built its artifact
C24_Witness ==
    /\ previewUrl = "http" /\ storePreviewUrl = "http" /\ bridgeFns = "live"
    /\ server = "bound" /\ cache = fingerprint /\ runs = EmptyBag

C28_TimerClearsOwnStatus ==
    [][\A t \in statusTimers :
          (StatusTimeout(t) /\ buildStatus' # buildStatus) => ~t.late]_vars

\* ------------------------------------------------ chat: claims
\* C27: the step that ends a sendMessage leaves isLoading false and its
\* placeholder not streaming, with the response or an error text; a
\* placeholder of a sendMessage that has not ended is streaming; and a
\* null from testControls or captureFrame ends it with the error text
C27_PlaceholderEnds ==
    /\ [][\A i \in 1..Len(thread) :
             /\ (thread[i].pc # "done" /\ thread'[i].pc = "done")
                   => /\ ~isLoading'
                      /\ ~thread'[i].isStreaming
                      /\ thread'[i].content \in {"response", "error"}
             /\ (BridgeReturn(i) /\ calls[thread[i].call].outcome = "null")
                   => (thread'[i].pc = "done" /\ thread'[i].content = "error")
             /\ thread[i].pc = "done" => thread'[i] = thread[i]]_vars
    /\ [](\A i \in 1..Len(thread) :
             thread[i].pc = "done" <=> ~thread[i].isStreaming)

\* a control test whose testControls returned null has ended with the
\* error text
C27_Witness ==
    \E i \in 1..Len(thread) :
        /\ thread[i].pc = "done" /\ thread[i].content = "error"
        /\ thread[i].call \in Calls
        /\ calls[thread[i].call].op = "testControls"
        /\ calls[thread[i].call].outcome = "null"

\* ------------------------------------------------- AI controller (ai_controller.gd)
Moves == {"move_left", "move_right", "move_up", "move_down"}
Directions == {"left", "right", "up", "down"}
Sticks == {<<0, 0>>, <<10, 0>>, <<2, 0>>, <<0 - 10, 10>>}   \* stick positions, in tenths

\* Vector2.length() > 0.1, on a vector given in tenths
LongerThanTenth(v) == v[1] * v[1] + v[2] * v[2] > 1

InputState == [analog_move |-> analog_move, pressed |-> pressed, byAnalog |-> byAnalog]

\* the directions a stick position presses
Tilted(v) ==
    {m \in Moves : \/ m = "move_left" /\ v[1] < 0 - 3
                   \/ m = "move_right" /\ v[1] > 3
                   \/ m = "move_up" /\ v[2] < 0 - 3
                   \/ m = "move_down" /\ v[2] > 3}

apply_analog_input(s) ==
    IF LongerThanTenth(s.analog_move)
    THEN [s EXCEPT !.pressed = (@ \ Moves) \cup Tilted(s.analog_move),
                   !.byAnalog = Tilted(s.analog_move)]
    ELSE s

do_move_analog(s, args) ==
    IF Len(args) < 2 THEN s ELSE [s EXCEPT !.analog_move = <<args[1], args[2]>>]

do_move(s, args) ==
    IF Len(args) < 1 THEN s
    ELSE [s EXCEPT !.pressed = (@ \ Moves) \cup
                       (CASE args[1] = "left" -> {"move_left"}
                          [] args[1] = "right" -> {"move_right"}
                          [] args[1] = "up" -> {"move_up"}
                          [] args[1] = "down" -> {"move_down"}
                          [] OTHER -> {}),
                   !.byAnalog = {}]

stop_all(s) ==
    [analog_move |-> <<0, 0>>,
     pressed |-> s.pressed \ (Moves \cup {"sprint", "crouch"}),
     byAnalog |-> {}]

execute_action(s, action) ==
    CASE action.function = "move" -> do_move(s, action.args)
      [] action.function = "move_analog" -> do_move_analog(s, action.args)
      [] action.function = "stop" -> stop_all(s)
      [] OTHER -> s

setInputState(s) ==
    /\ analog_move' = s.analog_move
    /\ pressed' = s.pressed
    /\ byAnalog' = s.byAnalog

\* _process from the end of _read_actions on: one action off the queue, then
\* the analog input
finishFrame(queue) ==
    IF Len(queue) > 0
    THEN \E found \in (IF player THEN {TRUE} ELSE BOOLEAN) :
            /\ action_queue' = Tail(queue)
            /\ player' = found
            /\ handled' = Append(handled, [action |-> Head(queue), done |-> found])
            /\ setInputState(apply_analog_input(
                   IF found THEN execute_action(InputState, Head(queue)) ELSE InputState))
    ELSE /\ action_queue' = queue
         /\ setInputState(apply_analog_input(InputState))
         /\ UNCHANGED <<player, handled>>

ready(env) ==
    /\ ctl = "created"
    /\ ctl' = "frame"
    /\ enabled' = (env = "true")
    /\ player' \in IF env = "true" THEN BOOLEAN ELSE {player}
    /\ UNCHANGED <<inputFile, action_queue, frame_count, analog_move, pressed, byAnalog,
                   written, received, handled>>
    /\ UNCHANGED <<localVars, asyncVars, storeVars, backendVars, bridgeVars, historyVars,
                   statusVars, serviceVars, stopped, projectVars, chatVars, listenerVars>>

\* the agent writes one action to agent_input.json
AgentWrite(function, args) ==
    /\ written < MaxWrites
    /\ written' = written + 1
    /\ inputFile' = [id |-> written + 1, function |-> function, args |-> args]
    /\ UNCHANGED <<enabled, player, ctl, action_queue, frame_count, analog_move, pressed,
                   byAnalog, received, handled>>
    /\ UNCHANGED <<localVars, asyncVars, storeVars, backendVars, bridgeVars, historyVars,
                   statusVars, serviceVars, stopped, projectVars, chatVars, listenerVars>>

\* a frame up to the read of the file; without an action in the file the
\* frame runs to its end
processDisabledReads ==
    /\ ctl = "frame"
    /\ frame_count < MaxFrames
    /\ frame_count' = frame_count + 1
    /\ IF inputFile.function # ""
       THEN /\ action_queue' = Append(action_queue, inputFile)
            /\ received' = Append(received, inputFile)
            /\ ctl' = "clear"
            /\ UNCHANGED <<player, handled, analog_move, pressed, byAnalog>>
       ELSE /\ finishFrame(action_queue)
            /\ UNCHANGED <<ctl, received>>
    /\ UNCHANGED <<enabled, inputFile, written>>
    /\ UNCHANGED <<localVars, asyncVars, storeVars, backendVars, bridgeVars, historyVars,
                   statusVars, serviceVars, stopped, projectVars, chatVars, listenerVars>>

process ==
    /\ ctl = "frame"
    /\ frame_count < MaxFrames
    /\ IF ~enabled
       THEN UNCHANGED <<frame_count, action_queue, received, ctl, player, handled,
                        analog_move, pressed, byAnalog>>
       ELSE /\ frame_count' = frame_count + 1
            /\ IF inputFile.function # ""
               THEN /\ action_queue' = Append(action_queue, inputFile)
                    /\ received' = Append(received, inputFile)
                    /\ ctl' = "clear"
                    /\ UNCHANGED <<player, handled, analog_move, pressed, byAnalog>>
               ELSE /\ finishFrame(action_queue)
                    /\ UNCHANGED <<ctl, received>>
    /\ UNCHANGED <<enabled, inputFile, written>>
    /\ UNCHANGED <<localVars, asyncVars, storeVars, backendVars, bridgeVars, historyVars,
                   statusVars, serviceVars, stopped, projectVars, chatVars, listenerVars>>

\* the rest of the frame: the file is cleared when it can be opened for
\* writing, then one action is executed
clearFile(ok) ==
    /\ ctl = "clear"
    /\ ctl' = "frame"
    /\ inputFile' = IF ok THEN NoAction ELSE inputFile
    /\ finishFrame(action_queue)
    /\ UNCHANGED <<enabled, frame_count, written, received>>
    /\ UNCHANGED <<localVars, asyncVars, storeVars, backendVars, bridgeVars, historyVars,
                   statusVars, serviceVars, stopped, projectVars, chatVars, listenerVars>>

Readies == \E env \in {"true", "false"} : ready(env)
AnalogWrites == \E s \in Sticks : AgentWrite("move_analog", s)
MoveWrites == \E d \in {"left", "up"} : AgentWrite("move", <<d>>)
StopWrite == AgentWrite("stop", <<>>)
Clears == \E ok \in BOOLEAN : clearFile(ok)

NextController ==
    \/ Readies
    \/ AnalogWrites
    \/ MoveWrites
    \/ StopWrite
    \/ process
    \/ Clears

SpecController == Init /\ [][NextController]_vars

TypeController ==
    /\ ctl \in {"created", "frame", "clear"}
    /\ Len(action_queue) <= 1
    /\ pressed \subseteq Moves

\* ------------------------------------------------- claims about the AI controller
Ids(log) == [i \in DOMAIN log |-> log[i].id]
Executed == SelectSeq(handled, LAMBDA h : h.done)
TimesExecuted(i) == Cardinality({k \in DOMAIN Executed : Executed[k].action.id = i})
Settled ==
    /\ enabled /\ player
    /\ ctl = "frame"
    /\ inputFile.function = ""
    /\ action_queue = <<>>

\* C25: every action the agent writes to agent_input.json is executed exactly
\* once: no action is executed twice, and once the controller has caught up
\* with the file (enabled, a player found, file and queue empty) every
\* written action has been executed
C25_ExecutedExactlyOnce ==
    /\ \A i \in 1..written : TimesExecuted(i) <= 1
    /\ Settled => \A i \in 1..written : TimesExecuted(i) = 1

\* C29: the actions taken off the queue, followed by the queue, are the
\* actions read from the file in the order they were read; no more actions
\* are taken off the queue than frames were processed; and a disabled
\* controller has read, queued and executed nothing
C29_InOrderOnePerFrame ==
    /\ Ids(received) = Ids([i \in DOMAIN handled |-> handled[i].action] \o action_queue)
    /\ Len(handled) <= frame_count
    /\ ~enabled => received = <<>> /\ action_queue = <<>> /\ handled = <<>>
                   /\ frame_count = 0 /\ pressed = {}

C29_Witness ==
    /\ enabled
    /\ Len(Executed) = 2
    /\ Executed[1].action.id = 1 /\ Executed[2].action.id = 2
    /\ frame_count = 2

\* C30: once a move_analog with a vector of length at most 0.1 has been
\* executed and its frame is over, no movement input pressed for an earlier
\* move_analog is still pressed
C30_NeutralStickReleases ==
    (/\ ctl = "frame"
     /\ Executed # <<>>
     /\ Executed[Len(Executed)].action.function = "move_analog"
     /\ ~LongerThanTenth(analog_move))
    => byAnalog \cap pressed = {}

====
